---- MODULE Spec2Model ----
(***************************************************************************)
(* Log-derived timeline reconstruction of azursmartmix_control:            *)
(* DockerClient's title normalisation, log extraction, upcoming            *)
(* reconstruction, playlist correlation and stream-start detection.        *)
(*                                                                         *)
(* A Python str is a sequence of one-character strings; an Optional value  *)
(* is None (the empty tuple) or Some(x) (a one-element tuple); a dict is a *)
(* record with exactly the keys the code writes.                           *)
(***************************************************************************)
EXTENDS Integers, Sequences, FiniteSets, TLC

(* ------------------------------ Optional ------------------------------ *)

None == << >>

Some(x) == << x >>

(* ------------------------------ str helpers --------------------------- *)

\* str.strip() / re "\s": the whitespace characters of the modelled alphabet
Whitespace == {" ", "\t", "\n", "\r"}

UpperLetters == <<"A","B","C","D","E","F","G","H","I","J","K","L","M",
                  "N","O","P","Q","R","S","T","U","V","W","X","Y","Z">>

LowerLetters == <<"a","b","c","d","e","f","g","h","i","j","k","l","m",
                  "n","o","p","q","r","s","t","u","v","w","x","y","z">>

Digits == {"0","1","2","3","4","5","6","7","8","9"}

\* str.lower() on one character
LowerChar(c) ==
  IF \E i \in 1..26 : UpperLetters[i] = c
    THEN LowerLetters[CHOOSE i \in 1..26 : UpperLetters[i] = c]
    ELSE c

\* str.lower()
Lower(s) == [i \in 1..Len(s) |-> LowerChar(s[i])]

\* s[i:] and s[:i] with Python's 0-based index i, 0 <= i
DropFirst(s, k) == IF k >= Len(s) THEN << >> ELSE SubSeq(s, k + 1, Len(s))

TakeFirst(s, k) == IF k >= Len(s) THEN s ELSE SubSeq(s, 1, k)

\* number of leading / trailing characters of s that lie in set cs
RECURSIVE LeadingRun(_, _)
LeadingRun(s, cs) ==
  IF s = << >> \/ Head(s) \notin cs THEN 0 ELSE 1 + LeadingRun(Tail(s), cs)

RECURSIVE TrailingRun(_, _)
TrailingRun(s, cs) ==
  IF s = << >> \/ s[Len(s)] \notin cs THEN 0
  ELSE 1 + TrailingRun(SubSeq(s, 1, Len(s) - 1), cs)

\* str.lstrip(), str.rstrip(), str.strip()
LStrip(s) == DropFirst(s, LeadingRun(s, Whitespace))

RStrip(s) == TakeFirst(s, Len(s) - TrailingRun(s, Whitespace))

Strip(s) == RStrip(LStrip(s))

\* s.startswith(p) at 1-based position i
MatchesAt(s, i, p) ==
  /\ i + Len(p) - 1 <= Len(s)
  /\ \A j \in 1..Len(p) : s[i + j - 1] = p[j]

\* str.replace(old, new): leftmost, non-overlapping
RECURSIVE Replace(_, _, _)
Replace(s, old, new) ==
  IF s = << >> THEN << >>
  ELSE IF MatchesAt(s, 1, old) THEN new \o Replace(DropFirst(s, Len(old)), old, new)
  ELSE << Head(s) >> \o Replace(Tail(s), old, new)

\* re.sub(r"\s+", " ", s)
RECURSIVE CollapseWhitespace(_)
CollapseWhitespace(s) ==
  IF s = << >> THEN << >>
  ELSE IF Head(s) \in Whitespace
    THEN << " " >> \o CollapseWhitespace(DropFirst(s, LeadingRun(s, Whitespace)))
  ELSE << Head(s) >> \o CollapseWhitespace(Tail(s))

\* os.path.basename(s): what follows the last "/"
RECURSIVE Basename(_)
Basename(s) ==
  IF \E i \in 1..Len(s) : s[i] = "/"
    THEN Basename(DropFirst(s, CHOOSE i \in 1..Len(s) : s[i] = "/" /\ \A j \in 1..(i-1) : s[j] # "/"))
    ELSE s

\* the audio extensions of the patterns (mp3|wav|flac|ogg|m4a|aac)
AudioExts == { <<"m","p","3">>, <<"w","a","v">>, <<"f","l","a","c">>,
               <<"o","g","g">>, <<"m","4","a">>, <<"a","a","c">> }

\* s ends with "." + one of the extensions, case-insensitively
EndsWithExt(s, e) ==
  /\ Len(s) >= Len(e) + 1
  /\ s[Len(s) - Len(e)] = "."
  /\ Lower(SubSeq(s, Len(s) - Len(e) + 1, Len(s))) = e

\* re.sub(r"\.(mp3|wav|flac|ogg|m4a|aac)$", "", s, flags=re.IGNORECASE)
StripExt(s) ==
  IF \E e \in AudioExts : EndsWithExt(s, e)
    THEN LET e == CHOOSE x \in AudioExts : EndsWithExt(s, x)
         IN  SubSeq(s, 1, Len(s) - Len(e) - 1)
    ELSE s

(* ------------------------- Normalization helpers ---------------------- *)


\* the separator steps without the replacement of the remaining underscores
SpacedKeepUnderscore(s) ==
  Strip(CollapseWhitespace(Replace(s, <<"_","-","_">>, <<" ","-"," ">>)))

\* s.replace("_-_", " - "); s.replace("_", " "); re.sub(r"\s+", " ", s).strip()
Spaced(s) ==
  Strip(CollapseWhitespace(
    Replace(Replace(s, <<"_","-","_">>, <<" ","-"," ">>), <<"_">>, <<" ">>)))

\* the steps normalize_title and display_title share (strip .. collapse)
CleanLabel(s) == Spaced(StripExt(Basename(Strip(s))))

normalize_title(s) == IF s = << >> THEN << >> ELSE Lower(CleanLabel(s))

display_title(s) == IF s = << >> THEN << >> ELSE CleanLabel(s)

(* ------------------------- Python list slicing ------------------------ *)

\* the index Python clamps a slice bound k to, for a list of length len
PyIndex(len, k) == IF k < 0 THEN (IF len + k < 0 THEN 0 ELSE len + k)
                   ELSE (IF k > len THEN len ELSE k)

\* xs[k:]
PySliceFrom(xs, k) == DropFirst(xs, PyIndex(Len(xs), k))

\* xs[:k] with the bound dropped: the whole list
PySliceToAll(xs, k) == xs

\* xs[:k]
PySliceTo(xs, k) == TakeFirst(xs, PyIndex(Len(xs), k))

(* ------------------------ Engine preprocess (compat) ------------------ *)

\* length of the match of _RE_LEADING_IDX  ^\s*\d+\s*[\.\)]\s*  (0: no match)
LeadingIdxLen(s) ==
  LET w1 == LeadingRun(s, Whitespace)
      d  == LeadingRun(DropFirst(s, w1), Digits)
      w2 == LeadingRun(DropFirst(s, w1 + d), Whitespace)
      r  == DropFirst(s, w1 + d + w2)
  IN  IF d > 0 /\ r # << >> /\ Head(r) \in {".", ")"}
        THEN w1 + d + w2 + 1 + LeadingRun(Tail(r), Whitespace)
        ELSE 0

\* s.split("->", 1)[0]
BeforeArrow(s) ==
  IF \E i \in 1..Len(s) : MatchesAt(s, i, <<"-", ">">>)
    THEN LET i == CHOOSE k \in 1..Len(s) :
                    /\ MatchesAt(s, k, <<"-", ">">>)
                    /\ \A j \in 1..(k-1) : ~MatchesAt(s, j, <<"-", ">">>)
         IN  SubSeq(s, 1, i - 1)
    ELSE s

\* the cut _RE_PAREN_TRAIL makes in s, body being s without trailing blanks:
\* \s*\(.*\)\s*$  matches from the blanks before the first "(" when the last
\* non-blank character is a later ")"
ParenTrailCut(s, body) ==
  IF Len(body) > 0 /\ body[Len(body)] = ")" /\ \E q \in 1..(Len(body)-1) : body[q] = "("
    THEN RStrip(SubSeq(s, 1, (CHOOSE k \in 1..(Len(body)-1) :
                                body[k] = "(" /\ \A j \in 1..(k-1) : body[j] # "(") - 1))
    ELSE s

\* _RE_PAREN_TRAIL.sub("", s)
StripParenTrail(s) == ParenTrailCut(s, RStrip(s))

\* _RE_EXT.sub("", s):  \.(mp3|...)\s*$  (trailing blanks belong to the match)
ExtBlankCut(s, body) == IF \E e \in AudioExts : EndsWithExt(body, e) THEN StripExt(body) ELSE s

StripExtBlank(s) == ExtBlankCut(s, RStrip(s))

\* self._RE_LEADING_IDX.sub("", s).strip()
DropLeadingIdx(s) == Strip(DropFirst(s, LeadingIdxLen(s)))


\* the arrow step left out
KeepArrow(s) == s

\* if "->" in s: s = s.split("->", 1)[0].strip()
KeepBeforeArrow(s) ==
  IF \E i \in 1..Len(s) : MatchesAt(s, i, <<"-", ">">>) THEN Strip(BeforeArrow(s)) ELSE s

\* "s or None"
OrNone(s) == IF s = << >> THEN None ELSE Some(s)

\* _clean_preprocess_title once the payload s is stripped and not empty
CleanPayload(s) ==
  OrNone(Spaced(Strip(StripExtBlank(Basename(
    Strip(StripParenTrail(KeepBeforeArrow(DropLeadingIdx(s)))))))))

\* DockerClient._clean_preprocess_title: None, or Some(title)
clean_preprocess_title(rest) ==
  IF Strip(rest) = << >> THEN None ELSE CleanPayload(Strip(rest))

(* ------------------------------ Log text ------------------------------ *)
(* A log text is the sequence of its lines.  A line is a record whose kind *)
(* tells which of the client's patterns it matches:                       *)
(*   "control"      the "[control] ..." text tail_logs returns on failure  *)
(*   "preprocess"   _RE_PREPROCESS, with the payload after "preprocess:"  *)
(*   "next"         _RE_SCHED_NEXT, with its ts, title and playlist groups *)
(*   "stream_start" _RE_STREAM_START, with an optional leading timestamp   *)
(*   "other"        none of them                                          *)
(* A timestamp text is [t |-> clock ticks, valid |-> a real date/time].    *)

\* the test without its startswith("[control]") half
LogUnavailableOnlyEmpty(txt) == txt = << >>

\* not txt or txt.startswith("[control]")
LogUnavailable(txt) == txt = << >> \/ txt[1].kind = "control"

\* txt.strip() if txt else "empty logs"
LogError(txt) == IF txt = << >> THEN "empty logs" ELSE txt[1].msg

\* DockerClient.tail_logs: the last `tail` lines, or the "[control]" text of
\* the exception the docker call raised
tail_logs(lines, fault, tail) ==
  CASE fault = "not_found"  -> << [kind |-> "control", msg |-> "[control] container not found"] >>
    [] fault = "docker"     -> << [kind |-> "control", msg |-> "[control] docker error"] >>
    [] fault = "unexpected" -> << [kind |-> "control", msg |-> "[control] unexpected error"] >>
    [] OTHER                -> IF tail >= Len(lines) THEN lines
                               ELSE SubSeq(lines, Len(lines) - tail + 1, Len(lines))

\* DockerClient._parse_sched_ts: None when strptime raises
parse_sched_ts(ts) == IF ts.valid THEN Some(ts.t) ELSE None

\* the loop of DockerClient._dedupe_keep_order
RECURSIVE DedupeFrom(_, _)
DedupeFrom(items, seen) ==
  IF items = << >> THEN << >>
  ELSE IF Head(items) \in seen THEN DedupeFrom(Tail(items), seen)
  ELSE << Head(items) >> \o DedupeFrom(Tail(items), seen \cup {Head(items)})

\* a dedupe that keeps every item
dedupe_keep_all(items) == items

dedupe_keep_order(items) == DedupeFrom(items, {})

\* what one line adds to titles in extract_preprocess_titles: nothing, or the
\* cleaned payload of a line _RE_PREPROCESS matches
TitlesOfLine(line) ==
  IF line.kind = "preprocess" /\ line.payload # << >>
    THEN clean_preprocess_title(Strip(line.payload))
    ELSE << >>


\* a scan that a line without title aborts
RECURSIVE PreprocessTitlesUntilMiss(_)
PreprocessTitlesUntilMiss(txt) ==
  IF txt = << >> \/ TitlesOfLine(Head(txt)) = << >> THEN << >>
  ELSE TitlesOfLine(Head(txt)) \o PreprocessTitlesUntilMiss(Tail(txt))

\* the loop of extract_preprocess_titles over txt.splitlines()
RECURSIVE PreprocessTitles(_)
PreprocessTitles(txt) ==
  IF txt = << >> THEN << >>
  ELSE TitlesOfLine(Head(txt)) \o PreprocessTitles(Tail(txt))

\* the success result of extract_preprocess_titles
PreprocessTitlesOk(titles, engine_container) ==
  [ok |-> TRUE, source |-> "engine_logs", engine_container |-> engine_container,
   titles |-> titles, count |-> Len(titles)]

\* DockerClient.extract_preprocess_titles, txt being what tail_logs returned
extract_preprocess_titles(txt, engine_container) ==
  IF LogUnavailable(txt)
    THEN [ok |-> FALSE, source |-> "engine_logs", engine_container |-> engine_container,
          error |-> LogError(txt), titles |-> << >>]
    ELSE PreprocessTitlesOk(PreprocessTitles(txt), engine_container)

\* a scan that stops at the first occurrence, as a forward loop would
ScanTitlesForward(titles, cur, i) ==
  IF \E k \in 1..i : Strip(titles[k]) = cur
    THEN Some(CHOOSE k \in 1..i : Strip(titles[k]) = cur
                                  /\ \A j \in 1..(k-1) : Strip(titles[j]) # cur)
    ELSE None

\* the backward scan of compute_upcoming_from_preprocess: None or Some(i + 1),
\* with Python's 0-based i (so the value is the 1-based index of the match)
RECURSIVE ScanTitlesBackward(_, _, _)
ScanTitlesBackward(titles, cur, i) ==
  IF i < 1 THEN None
  ELSE IF Strip(titles[i]) = cur THEN Some(i)
  ELSE ScanTitlesBackward(titles, cur, i - 1)

\* "current_title or ''"
OrEmpty(current_title) == IF current_title = None THEN << >> ELSE current_title[1]

\* the multipliers of the fallback tail windows
PreprocessTailFactor == 4

SchedulerTailFactor == 8


\* a start index that is the place of the match itself (start_idx = i)
PreprocessStartIdxAtMatch(titles, cur) ==
  IF cur # << >> /\ ScanTitlesBackward(titles, cur, Len(titles)) # None
    THEN Some(ScanTitlesBackward(titles, cur, Len(titles))[1] - 1)
    ELSE None

\* start_idx of compute_upcoming_from_preprocess
PreprocessStartIdx(titles, cur) ==
  IF cur # << >> THEN ScanTitlesBackward(titles, cur, Len(titles)) ELSE None

\* the two success results of compute_upcoming_from_preprocess
UpcomingFromTitles(titles, start_idx, current_title, n) ==
  IF start_idx = None
    THEN [ok |-> TRUE, source |-> "engine_logs_fallback_tail",
          current_title_found |-> FALSE, current_title |-> current_title,
          upcoming |-> PySliceTo(dedupe_keep_order(
                         PySliceFrom(titles, 0 - (n * PreprocessTailFactor))), n)]
    ELSE [ok |-> TRUE, source |-> "engine_logs_after_current",
          current_title_found |-> TRUE, current_title |-> current_title,
          upcoming |-> PySliceTo(dedupe_keep_order(PySliceFrom(titles, start_idx[1])), n)]

\* compute_upcoming_from_preprocess without its "if not titles" return
UpcomingFromFilteredTitlesUnchecked(titles, cur, current_title, n) ==
  UpcomingFromTitles(titles, PreprocessStartIdx(titles, cur), current_title, n)

\* compute_upcoming_from_preprocess from the filtered titles on
UpcomingFromFilteredTitles(titles, cur, current_title, n) ==
  IF titles = << >>
    THEN [ok |-> FALSE, error |-> "no preprocess titles found",
          upcoming |-> << >>, source |-> "engine_logs"]
    ELSE UpcomingFromTitles(titles, PreprocessStartIdx(titles, cur), current_title, n)

\* compute_upcoming_from_preprocess from the extractor's result on
UpcomingFromPreprocessData(data, current_title, n) ==
  IF ~data.ok
    THEN [ok |-> FALSE, error |-> data.error, upcoming |-> << >>, source |-> "engine_logs"]
    ELSE UpcomingFromFilteredTitles(SelectSeq(data.titles, LAMBDA t : Strip(t) # << >>),
                                    Strip(OrEmpty(current_title)), current_title, n)

\* DockerClient.compute_upcoming_from_preprocess
compute_upcoming_from_preprocess(txt, engine_container, current_title, n) ==
  UpcomingFromPreprocessData(extract_preprocess_titles(txt, engine_container),
                             current_title, n)

(* ----------------------------- Scheduler NEXT ------------------------- *)

\* the dict extract_scheduler_next_entries builds from one NextEntry
NextEntryDict(line) ==
  [ts |-> line.ts, title |-> line.title, title_norm |-> normalize_title(line.title),
   title_display |-> display_title(line.title), playlist |-> line.playlist]


\* a scan that drops the announcements whose timestamp is no date/time
NextEntriesParsedOnly(txt) ==
  [ i \in 1..Cardinality({ j \in 1..Len(txt) : txt[j].kind = "next" /\ txt[j].ts.valid })
      |-> NextEntryDict(txt[CHOOSE j \in 1..Len(txt) :
                              /\ txt[j].kind = "next" /\ txt[j].ts.valid
                              /\ Cardinality({ h \in 1..j :
                                                 txt[h].kind = "next" /\ txt[h].ts.valid }) = i]) ]

\* the loop of extract_scheduler_next_entries over txt.splitlines()
RECURSIVE NextEntries(_)
NextEntries(txt) ==
  IF txt = << >> THEN << >>
  ELSE (IF Head(txt).kind = "next" THEN << NextEntryDict(Head(txt)) >> ELSE << >>)
       \o NextEntries(Tail(txt))

\* the success result of extract_scheduler_next_entries
NextEntriesOk(entries, scheduler_container) ==
  [ok |-> TRUE, source |-> "scheduler_logs", scheduler_container |-> scheduler_container,
   count |-> Len(entries), entries |-> entries]

\* DockerClient.extract_scheduler_next_entries, txt being what tail_logs returned
extract_scheduler_next_entries(txt, scheduler_container) ==
  IF LogUnavailable(txt)
    THEN [ok |-> FALSE, source |-> "scheduler_logs",
          scheduler_container |-> scheduler_container,
          error |-> LogError(txt), entries |-> << >>]
    ELSE NextEntriesOk(NextEntries(txt), scheduler_container)

\* a scan that stops at the first matching entry, as a forward loop would
ScanEntriesForward(entries, cur_norm, i) ==
  IF \E k \in 1..i : entries[k].title_norm = cur_norm
    THEN Some(CHOOSE k \in 1..i : entries[k].title_norm = cur_norm
                                  /\ \A j \in 1..(k-1) : entries[j].title_norm # cur_norm)
    ELSE None

\* the backward scans over the entries: None, or Some(1-based index of the
\* last entry whose title_norm equals cur_norm)
RECURSIVE ScanEntriesBackward(_, _, _)
ScanEntriesBackward(entries, cur_norm, i) ==
  IF i < 1 THEN None
  ELSE IF entries[i].title_norm = cur_norm THEN Some(i)
  ELSE ScanEntriesBackward(entries, cur_norm, i - 1)

\* the results of infer_playlist_for_title_from_scheduler once the scan is done
PlaylistOfMatch(entries, at, current_title, cur_norm) ==
  IF at = None
    THEN [ok |-> TRUE, playlist |-> None, match |-> None,
          current_title |-> current_title, current_norm |-> cur_norm]
    ELSE [ok |-> TRUE, playlist |-> Some(entries[at[1]].playlist),
          match |-> Some(entries[at[1]]),
          current_title |-> current_title, current_norm |-> cur_norm]

\* the correlator treating "no entries" as the reconstruction does: a failure
PlaylistFromDataStrict(data, current_title, cur_norm) ==
  IF ~data.ok
    THEN [ok |-> FALSE, error |-> data.error, playlist |-> None, match |-> None]
  ELSE IF data.entries = << >> \/ cur_norm = << >>
    THEN [ok |-> FALSE, error |-> "no scheduler NEXT entries found",
          playlist |-> None, match |-> None]
  ELSE PlaylistOfMatch(data.entries,
                       ScanEntriesBackward(data.entries, cur_norm, Len(data.entries)),
                       current_title, cur_norm)

\* infer_playlist_for_title_from_scheduler from the extractor's result on
PlaylistFromData(data, current_title, cur_norm) ==
  IF ~data.ok
    THEN [ok |-> FALSE, error |-> data.error, playlist |-> None, match |-> None]
  ELSE IF cur_norm = << >> \/ data.entries = << >>
    THEN [ok |-> TRUE, playlist |-> None, match |-> None,
          current_title |-> current_title, current_norm |-> cur_norm]
  ELSE PlaylistOfMatch(data.entries,
                       ScanEntriesBackward(data.entries, cur_norm, Len(data.entries)),
                       current_title, cur_norm)

\* DockerClient.infer_playlist_for_title_from_scheduler
infer_playlist_for_title_from_scheduler(txt, scheduler_container, current_title) ==
  PlaylistFromData(extract_scheduler_next_entries(txt, scheduler_container),
                   current_title, normalize_title(OrEmpty(current_title)))

\* the item compute_upcoming_from_scheduler_next appends for entry e
UpcomingItem(e) ==
  [title |-> e.title,
   title_display |-> IF e.title_display # << >> THEN e.title_display
                     ELSE display_title(e.title),
   playlist |-> e.playlist, ts |-> e.ts]

\* the dedupe loop of compute_upcoming_from_scheduler_next, from the state
\* (seen, out) it has reached: it breaks once len(out) >= n after an append
RECURSIVE UpcomingLoop(_, _, _, _)
UpcomingLoop(seq, seen, out, n) ==
  IF seq = << >> THEN out
  ELSE IF Strip(Head(seq).title_norm) = << >> \/ Strip(Head(seq).title_norm) \in seen
    THEN UpcomingLoop(Tail(seq), seen, out, n)
  ELSE IF Len(out) + 1 >= n THEN Append(out, UpcomingItem(Head(seq)))
  ELSE UpcomingLoop(Tail(seq), seen \cup {Strip(Head(seq).title_norm)},
                    Append(out, UpcomingItem(Head(seq))), n)

\* start_idx of compute_upcoming_from_scheduler_next
SchedulerStartIdx(raw_entries, cur_norm) ==
  IF cur_norm # << >>
    THEN ScanEntriesBackward(raw_entries, cur_norm, Len(raw_entries))
    ELSE None

\* seq with an unbounded fallback: every entry
SchedulerWindowWhole(raw_entries, start_idx, n) ==
  IF start_idx # None THEN PySliceFrom(raw_entries, start_idx[1]) ELSE raw_entries

\* seq of compute_upcoming_from_scheduler_next
SchedulerWindow(raw_entries, start_idx, n) ==
  IF start_idx # None THEN PySliceFrom(raw_entries, start_idx[1])
  ELSE PySliceFrom(raw_entries, 0 - (n * SchedulerTailFactor))

\* the success result always tagged as the confident path
UpcomingFromEntriesTagged(raw_entries, start_idx, current_title, n) ==
  [ok |-> TRUE,
   source |-> "scheduler_logs_after_current",
   current_title_found |-> TRUE,
   current_title |-> current_title,
   upcoming |-> UpcomingLoop(IF start_idx # None THEN PySliceFrom(raw_entries, start_idx[1])
                             ELSE PySliceFrom(raw_entries, 0 - (n * 8)), {}, << >>, n)]

\* the success result of compute_upcoming_from_scheduler_next
UpcomingFromEntries(raw_entries, start_idx, current_title, n) ==
  [ok |-> TRUE,
   source |-> IF start_idx # None THEN "scheduler_logs_after_current"
              ELSE "scheduler_logs_fallback_tail",
   current_title_found |-> (start_idx # None),
   current_title |-> current_title,
   upcoming |-> UpcomingLoop(SchedulerWindow(raw_entries, start_idx, n), {}, << >>, n)]


\* the reconstruction reporting a log without NEXT entry as an empty log
UpcomingFromSchedulerDataAsEmpty(data, cur_norm, current_title, n) ==
  IF ~data.ok \/ data.entries = << >>
    THEN [ok |-> FALSE, error |-> IF data.ok THEN "empty logs" ELSE data.error,
          upcoming |-> << >>, source |-> "scheduler_logs"]
  ELSE UpcomingFromEntries(data.entries, SchedulerStartIdx(data.entries, cur_norm),
                           current_title, n)

\* compute_upcoming_from_scheduler_next from the extractor's result on
UpcomingFromSchedulerData(data, cur_norm, current_title, n) ==
  IF ~data.ok
    THEN [ok |-> FALSE, error |-> data.error, upcoming |-> << >>,
          source |-> "scheduler_logs"]
  ELSE IF data.entries = << >>
    THEN [ok |-> FALSE, error |-> "no scheduler NEXT entries found",
          upcoming |-> << >>, source |-> "scheduler_logs"]
  ELSE UpcomingFromEntries(data.entries, SchedulerStartIdx(data.entries, cur_norm),
                           current_title, n)

\* DockerClient.compute_upcoming_from_scheduler_next
compute_upcoming_from_scheduler_next(txt, scheduler_container, current_title, n) ==
  UpcomingFromSchedulerData(extract_scheduler_next_entries(txt, scheduler_container),
                            normalize_title(OrEmpty(current_title)), current_title, n)

(* --------------------------- Engine STREAM_START ---------------------- *)

\* clock ticks per second: timestamps carry milliseconds, ages are whole seconds
TicksPerSecond == 2

\* int(x / TicksPerSecond), rounding toward zero as Python's int() does
TruncSeconds(d) == IF d >= 0 THEN d \div TicksPerSecond
                   ELSE 0 - ((0 - d) \div TicksPerSecond)


\* a scan that stops at the first matching line
StreamStartScanFirst(txt, last_line, last_ts) ==
  IF \E i \in 1..Len(txt) : txt[i].kind = "stream_start"
    THEN [line |-> Some(txt[CHOOSE i \in 1..Len(txt) :
                              /\ txt[i].kind = "stream_start"
                              /\ \A j \in 1..(i-1) : txt[j].kind # "stream_start"]),
          ts |-> None]
    ELSE [line |-> last_line, ts |-> last_ts]

\* the forward scan of last_engine_stream_start from (last_line, last_ts):
\* a matching line without a leading timestamp leaves last_ts as it was
RECURSIVE StreamStartScan(_, _, _)
StreamStartScan(txt, last_line, last_ts) ==
  IF txt = << >> THEN [line |-> last_line, ts |-> last_ts]
  ELSE IF Head(txt).kind # "stream_start"
    THEN StreamStartScan(Tail(txt), last_line, last_ts)
  ELSE StreamStartScan(Tail(txt), Some(Head(txt)),
                       IF Head(txt).ts # None THEN parse_sched_ts(Head(txt).ts[1])
                       ELSE last_ts)

\* age_s of last_engine_stream_start: None when last_ts is None
StreamStartAge(last_ts, now) ==
  IF last_ts # None THEN Some(TruncSeconds(now - last_ts[1])) ELSE None


\* the detector reporting "no matching line" as a failure
StreamStartResultAbsentFails(last, age_s, engine_container, recent_window_s) ==
  IF last.line = None
    THEN [ok |-> FALSE, source |-> "engine_logs", engine_container |-> engine_container,
          error |-> "no stream start found", line |-> None, recent |-> FALSE]
    ELSE [ok |-> TRUE, source |-> "engine_logs", engine_container |-> engine_container,
          line |-> last.line, ts |-> last.ts, age_s |-> age_s,
          recent |-> (age_s # None /\ age_s[1] >= 0 /\ age_s[1] <= recent_window_s),
          recent_window_s |-> recent_window_s]

\* the results of last_engine_stream_start once the scan is done
StreamStartResult(last, age_s, engine_container, recent_window_s) ==
  IF last.line = None
    THEN [ok |-> TRUE, source |-> "engine_logs", engine_container |-> engine_container,
          line |-> None, recent |-> FALSE]
    ELSE [ok |-> TRUE, source |-> "engine_logs", engine_container |-> engine_container,
          line |-> last.line, ts |-> last.ts, age_s |-> age_s,
          recent |-> (age_s # None /\ age_s[1] >= 0 /\ age_s[1] <= recent_window_s),
          recent_window_s |-> recent_window_s]

\* last_engine_stream_start from the scan's result on
StreamStartFromScan(last, engine_container, recent_window_s, now) ==
  StreamStartResult(last, StreamStartAge(last.ts, now), engine_container, recent_window_s)

\* DockerClient.last_engine_stream_start; now is datetime.now() in ticks
last_engine_stream_start(txt, engine_container, recent_window_s, now) ==
  IF LogUnavailable(txt)
    THEN [ok |-> FALSE, source |-> "engine_logs", engine_container |-> engine_container,
          error |-> LogError(txt), line |-> None, recent |-> FALSE]
    ELSE StreamStartFromScan(StreamStartScan(txt, None, None),
                             engine_container, recent_window_s, now)


(* --------------------------- dotenv helpers --------------------------- *)

\* [A-Za-z_] and [A-Za-z0-9_] of _RE_ENV_KV
IdentStartChars ==
  { UpperLetters[i] : i \in 1..26 } \cup { LowerLetters[i] : i \in 1..26 } \cup {"_"}

IdentChars == IdentStartChars \cup Digits

\* s.endswith(p)
EndsWith(s, p) == Len(s) >= Len(p) /\ SubSeq(s, Len(s) - Len(p) + 1, Len(s)) = p

\* what "." of a pattern matches from the start of s: up to the line ending
UpToEol(s) ==
  IF \E i \in 1..Len(s) : s[i] = "\n"
    THEN SubSeq(s, 1, (CHOOSE i \in 1..Len(s) : s[i] = "\n" /\ \A j \in 1..(i-1) : s[j] # "\n") - 1)
    ELSE s

\* ([A-Za-z_][A-Za-z0-9_]*)\s*=\s*(.*)$ matched at the start of s
EnvKvTail(s) ==
  IF s = << >> \/ Head(s) \notin IdentStartChars THEN None
  ELSE IF LStrip(DropFirst(s, LeadingRun(s, IdentChars))) = << >> THEN None
  ELSE IF Head(LStrip(DropFirst(s, LeadingRun(s, IdentChars)))) # "=" THEN None
  ELSE Some([k |-> TakeFirst(s, LeadingRun(s, IdentChars)),
             raw_v |-> UpToEol(LStrip(Tail(LStrip(DropFirst(s, LeadingRun(s, IdentChars))))))])

\* _RE_ENV_KV.match(line): ^\s*(?:export\s+)?(KEY)\s*=\s*(.*)$, the optional
\* "export" tried first, then the match without it
RE_ENV_KV_Exported(s) ==
  IF MatchesAt(s, 1, <<"e", "x", "p", "o", "r", "t">>) /\ Len(s) > 6 /\ s[7] \in Whitespace
    THEN EnvKvTail(LStrip(DropFirst(s, 6)))
    ELSE None

RE_ENV_KV(line) ==
  IF RE_ENV_KV_Exported(LStrip(line)) # None
    THEN RE_ENV_KV_Exported(LStrip(line))
    ELSE EnvKvTail(LStrip(line))

\* _parse_dotenv_value: strip, then drop one pair of surrounding quotes;
\* escapes are left as they are
ParseStripped(v) ==
  IF Len(v) >= 2 /\ v[1] = v[Len(v)] /\ v[1] \in {"'", "\""}
    THEN SubSeq(v, 2, Len(v) - 1)
    ELSE v

parse_dotenv_value(raw) == ParseStripped(Strip(raw))

\* the characters that make _format_dotenv_value quote a value
NeedsQuoteChars == {" ", "\t", "#", "\"", "'"}

\* _format_dotenv_value: double quotes around a value with a blank, a "#" or
\* a quote, with backslash and double quote escaped
format_dotenv_value(v) ==
  IF v = << >> THEN << >>
  ELSE IF \A i \in 1..Len(v) : v[i] \notin NeedsQuoteChars THEN v
  ELSE <<"\"">>
       \o Replace(Replace(v, <<"\\">>, <<"\\", "\\">>), <<"\"">>, <<"\\", "\"">>)
       \o <<"\"">>

\* f.read() of a file opened in text mode: "\r\n" and "\r" are read as "\n"
ReadText(text) == Replace(Replace(text, <<"\r", "\n">>, <<"\n">>), <<"\r">>, <<"\n">>)

\* str.splitlines(True): the lines of text, each with its line ending
RECURSIVE SplitLines(_)
SplitLines(text) ==
  IF text = << >> THEN << >>
  ELSE IF \A i \in 1..Len(text) : text[i] # "\n" THEN << text >>
  ELSE << UpToEol(text) \o <<"\n">> >> \o SplitLines(DropFirst(text, Len(UpToEol(text)) + 1))

\* _read_text_lines of an existing file
read_text_lines(text) == SplitLines(ReadText(text))

RECURSIVE JoinLines(_)
JoinLines(lines) == IF lines = << >> THEN << >> ELSE Head(lines) \o JoinLines(Tail(lines))

\* _write_text_lines_atomic: the lines as they are, and a line ending after
\* the last one when it has none
write_text_lines_atomic(lines) ==
  JoinLines(lines)
  \o (IF lines # << >> /\ ~EndsWith(lines[Len(lines)], <<"\n">>) THEN <<"\n">> ELSE << >>)

\* what the loop of _parse_dotenv_lines reads on each line: None for a blank
\* line, a comment and a line the pattern does not match
KvOfLine(line) ==
  IF Strip(line) = << >> \/ Head(Strip(line)) = "#" THEN None ELSE RE_ENV_KV(line)

KvOfLines(lines) == [i \in 1..Len(lines) |-> KvOfLine(lines[i])]

\* the last line that carries key k (1-based)
LastLineOf(kv, k) ==
  CHOOSE i \in 1..Len(kv) :
    /\ kv[i] # None /\ kv[i][1].k = k
    /\ \A j \in (i+1)..Len(kv) : kv[j] = None \/ kv[j][1].k # k

EnvOfKv(kv, keys) ==
  [env |-> [k \in keys |-> parse_dotenv_value(kv[LastLineOf(kv, k)][1].raw_v)],
   idx |-> [k \in keys |-> LastLineOf(kv, k)]]

KeysOfKv(kv) == { kv[i][1].k : i \in { j \in 1..Len(kv) : kv[j] # None } }

\* _parse_dotenv_lines: (env, idx), a later line of a key replacing an earlier
parse_dotenv_lines(lines) == EnvOfKv(KvOfLines(lines), KeysOfKv(KvOfLines(lines)))

\* what a call on a missing env file raises
FileNotFound == [raised |-> "FileNotFoundError"]

GetEnvResult(env) ==
  [ok |-> TRUE, service |-> "azuramix.env", environment |-> env,
   count |-> Cardinality(DOMAIN env), source |-> "env_file"]

\* get_env_from_host_envfile; file is None or Some(text)
get_env_from_host_envfile(file) ==
  IF file = None THEN FileNotFound
  ELSE GetEnvResult(parse_dotenv_lines(read_text_lines(file[1])).env)

\* the loop over env_updates.items() that fills the dict clean: keys
\* stripped, blank keys skipped, a later value of a key replacing an earlier
RECURSIVE CleanUpdates(_, _)
CleanUpdates(items, clean) ==
  IF items = << >> THEN clean
  ELSE CleanUpdates(Tail(items),
         IF Strip(Head(items)[1]) = << >> THEN clean
         ELSE IF \E i \in 1..Len(clean) : clean[i][1] = Strip(Head(items)[1])
           THEN [i \in 1..Len(clean) |->
                   IF clean[i][1] = Strip(Head(items)[1])
                     THEN << clean[i][1], Head(items)[2] >> ELSE clean[i]]
         ELSE Append(clean, << Strip(Head(items)[1]), Head(items)[2] >>))

\* the line ending kept for a rewritten line
EolOf(line) == IF EndsWith(line, <<"\r", "\n">>) THEN <<"\r", "\n">> ELSE <<"\n">>

\* f"{k}={_format_dotenv_value(v)}{eol}"
EnvLine(item, eol) == item[1] \o <<"=">> \o format_dotenv_value(item[2]) \o eol

\* the first loop over clean: the line of every key of key_idx rewritten
RewriteInPlace(lines, clean, key_idx) ==
  [i \in 1..Len(lines) |->
     IF \E c \in 1..Len(clean) : clean[c][1] \in DOMAIN key_idx /\ key_idx[clean[c][1]] = i
       THEN EnvLine(clean[CHOOSE c \in 1..Len(clean) :
                            clean[c][1] \in DOMAIN key_idx /\ key_idx[clean[c][1]] = i],
                    EolOf(lines[i]))
       ELSE lines[i]]

\* the second loop over clean: one more line per key that is not in key_idx
RECURSIVE AppendNew(_, _, _)
AppendNew(lines, clean, key_idx) ==
  IF clean = << >> THEN lines
  ELSE AppendNew(IF Head(clean)[1] \in DOMAIN key_idx THEN lines
                 ELSE Append(lines, EnvLine(Head(clean), <<"\n">>)),
                 Tail(clean), key_idx)

\* the lines rewritten and appended
MergedLines(lines, clean, key_idx) ==
  AppendNew(RewriteInPlace(lines, clean, key_idx), clean, key_idx)

SetEnvResult(before, written, clean, key_idx) ==
  [file |-> Some(written),
   result |-> [ok |-> TRUE,
               count |-> Cardinality(DOMAIN parse_dotenv_lines(read_text_lines(written)).env),
               updated |-> Cardinality({ c \in 1..Len(clean) : clean[c][1] \in DOMAIN key_idx }),
               added |-> Cardinality({ c \in 1..Len(clean) : clean[c][1] \notin DOMAIN key_idx }),
               backup |-> before, source |-> "env_file"]]

SetEnvMerge(before, lines, clean, key_idx) ==
  SetEnvResult(before, write_text_lines_atomic(MergedLines(lines, clean, key_idx)),
               clean, key_idx)

\* set_env_in_host_envfile; file is None or Some(text), env_updates the items
\* of the dict in their order; gives the file afterwards and the result, whose
\* backup is the text the backup file holds
set_env_in_host_envfile(file, env_updates) ==
  IF file = None THEN [file |-> None, result |-> FileNotFound]
  ELSE SetEnvMerge(file[1], read_text_lines(file[1]), CleanUpdates(env_updates, << >>),
                   parse_dotenv_lines(read_text_lines(file[1])).idx)


(* ------------------------ compose and scheduler ----------------------- *)

\* _run_cmd: the structured output of a command that ended with return code
\* rc (124 after a timeout, 127 when it could not be executed); its output
\* texts and times are left out
run_cmd(cmd, rc) == [ok |-> rc = 0, rc |-> rc, cmd |-> cmd]

\* the two commands of compose_update
ComposeDownCmd == <<"docker", "compose", "down">>

ImageRmCmd(image_ref) == <<"docker", "image", "rm", "-f", image_ref>>

\* compose_update: r1, r2 are the outputs of the two commands
ComposeUpdateResult(r1, r2) ==
  [ok |-> r1.ok, step_down |-> r1, step_image_rm |-> [r2 EXCEPT !.ok = TRUE]]

\* the commands compose_update runs, in order, with their outputs
ComposeUpdateCmds(image_ref, rc_down, rc_rm) ==
  << run_cmd(ComposeDownCmd, rc_down), run_cmd(ImageRmCmd(image_ref), rc_rm) >>

compose_update(image_ref, rc_down, rc_rm) ==
  ComposeUpdateResult(ComposeUpdateCmds(image_ref, rc_down, rc_rm)[1],
                      ComposeUpdateCmds(image_ref, rc_down, rc_rm)[2])

\* str(n) of an integer
DigitChars == <<"0", "1", "2", "3", "4", "5", "6", "7", "8", "9">>

RECURSIVE PyStr(_)
PyStr(n) ==
  IF n < 0 THEN <<"-">> \o PyStr(-n)
  ELSE IF n < 10 THEN << DigitChars[n + 1] >>
  ELSE PyStr(n \div 10) \o << DigitChars[(n % 10) + 1] >>

\* the three paths of upcoming(n): f"/next?n={n}", f"/next{n}", "/next1"
UpcomingPaths(n) ==
  << <<"/", "n", "e", "x", "t", "?", "n", "=">> \o PyStr(n),
     <<"/", "n", "e", "x", "t">> \o PyStr(n),
     <<"/", "n", "e", "x", "t">> \o <<"1">> >>

\* p occurs in s
Contains(s, p) == \E i \in 1..(Len(s) + 1) : MatchesAt(s, i, p)

\* the JSON texts among the modelled bodies, and r.json(): None for the JSON
\* value null, otherwise the value the text denotes
JsonTexts == { <<"n", "u", "l", "l">>, <<"[", "1", "]">> }

JsonValue(text) == IF Strip(text) = <<"n", "u", "l", "l">> THEN None ELSE Some([json |-> Strip(text)])

\* the dict {}
EmptyDict == [raw_text |-> None]

\* _safe_json(r): a Python value, None or Some(v)
safe_json(r) ==
  IF Contains(Lower(r.content_type), <<"a", "p", "p", "l", "i", "c", "a", "t", "i", "o", "n", "/", "j", "s", "o", "n">>)
    THEN IF Strip(r.text) \in JsonTexts THEN JsonValue(r.text)
         ELSE Some([raw_text |-> Some(r.text)])
    ELSE IF Strip(r.text) # << >> THEN Some([raw_text |-> Some(Strip(r.text))])
         ELSE Some(EmptyDict)

\* _try_get_json, given what the GET request met: an exception or a response
try_get_json(answer) ==
  IF "raised" \in DOMAIN answer THEN None
  ELSE IF answer.status_code >= 400 THEN None
  ELSE safe_json(answer)

\* one request sent, with what it met
Request(path, answer) == [get |-> path, answer |-> answer]

NoUpcomingEndpoint == [note |-> "No upcoming endpoint found on scheduler."]

\* upcoming(n): the requests sent and the result; answers[i] is what the
\* i-th request meets
scheduler_upcoming(paths, answers) ==
  IF try_get_json(answers[1]) # None
    THEN [io |-> << Request(paths[1], answers[1]) >>,
          result |-> [source |-> Some(paths[1]), data |-> try_get_json(answers[1])[1]]]
  ELSE IF try_get_json(answers[2]) # None
    THEN [io |-> << Request(paths[1], answers[1]), Request(paths[2], answers[2]) >>,
          result |-> [source |-> Some(paths[2]), data |-> try_get_json(answers[2])[1]]]
  ELSE IF try_get_json(answers[3]) # None
    THEN [io |-> << Request(paths[1], answers[1]), Request(paths[2], answers[2]),
                    Request(paths[3], answers[3]) >>,
          result |-> [source |-> Some(paths[3]), data |-> try_get_json(answers[3])[1]]]
  ELSE [io |-> << Request(paths[1], answers[1]), Request(paths[2], answers[2]),
                  Request(paths[3], answers[3]) >>,
        result |-> [source |-> None, data |-> NoUpcomingEndpoint]]

(* ------------------------------- Bounds ------------------------------- *)

\* lines the engine / the scheduler container writes at most
MaxEngineLines == 5

MaxSchedLines == 9

\* largest result count n a caller asks for (0 and -1 stand for n <= 0)
MaxN == 2

\* latest clock reading datetime.now() of a stream-start call, in ticks
MaxClock == 3

\* lines of a log that mixes every shape of line
MaxMixedLines == 3

\* parts a raw title is put together from at most
MaxTitleParts == 3

\* parts a preprocess payload is put together from at most
MaxPayloadParts == 4

\* lines of the env file from which on no further update is applied
MaxEnvLines == 3

(* ------------------------------- Inputs ------------------------------- *)

\* "1. a_b.mp3 -> x.wav (ok)": cleans to "a b"
PayloadAB == <<"1", ".", " ", "a", "_", "b", ".", "m", "p", "3", " ", "-", ">", " ",
               "x", ".", "w", "a", "v", " ", "(", "o", "k", ")">>

\* " c": cleans to "c"
PayloadC == <<" ", "c">>

\* what the engine writes as its line number pos
EngineLines(pos) ==
  { [kind |-> "preprocess", payload |-> PayloadAB],
    [kind |-> "preprocess", payload |-> PayloadC],
    [kind |-> "stream_start", ts |-> Some([t |-> pos, valid |-> TRUE])] }

\* what the scheduler writes as its line number pos: NEXT announcements of
\* "a_b.mp3" (key "a b") and "C" (key "c")
SchedLines(pos) ==
  { [kind |-> "next", ts |-> [t |-> pos, valid |-> TRUE],
     title |-> <<"a", "_", "b", ".", "m", "p", "3">>, playlist |-> "morning"],
    [kind |-> "next", ts |-> [t |-> pos, valid |-> TRUE],
     title |-> <<"C">>, playlist |-> "evening"] }

\* the current titles the metadata source supplies: none, " a b", "C", "d"
CurrentTitles ==
  { None, Some(<<" ", "a", " ", "b">>), Some(<<"C">>), Some(<<"d">>) }

\* the result counts callers ask for
Counts == {-1, 0} \cup (1..MaxN)

\* the tail length the operations default to
DefaultTail == 2500

\* the recency windows callers ask for, in seconds
Windows == {0, 1}

\* "(x)": a preprocess payload that cleans to nothing
PayloadParen == <<"(", "x", ")">>

\* what the engine writes as line number pos of a mixed log: preprocess lines
\* (one cleaning to nothing), BUS STREAM_START lines with a leading timestamp,
\* with a leading timestamp that is no date/time, and with none, and a line
\* of another shape
MixedEngineLines(pos) ==
  { [kind |-> "preprocess", payload |-> PayloadAB],
    [kind |-> "preprocess", payload |-> PayloadC],
    [kind |-> "preprocess", payload |-> PayloadParen],
    [kind |-> "stream_start", ts |-> Some([t |-> pos, valid |-> TRUE])],
    [kind |-> "stream_start", ts |-> Some([t |-> pos, valid |-> FALSE])],
    [kind |-> "stream_start", ts |-> None],
    [kind |-> "other", missing |-> "marker"] }

\* what the scheduler writes as line number pos of a mixed log: NEXT
\* announcements, one with a timestamp text that is no date/time, and a NEXT
\* line without its playlist field (_RE_SCHED_NEXT does not match it)
MixedSchedLines(pos) ==
  { [kind |-> "next", ts |-> [t |-> pos, valid |-> TRUE],
     title |-> <<"a", "_", "b", ".", "m", "p", "3">>, playlist |-> "morning"],
    [kind |-> "next", ts |-> [t |-> pos, valid |-> TRUE],
     title |-> <<"C">>, playlist |-> "evening"],
    [kind |-> "next", ts |-> [t |-> pos, valid |-> FALSE],
     title |-> <<"a", "_", "b", ".", "m", "p", "3">>, playlist |-> "morning"],
    [kind |-> "other", missing |-> "playlist"] }

MixedLines(container, pos) ==
  IF container = "engine" THEN MixedEngineLines(pos) ELSE MixedSchedLines(pos)

\* the pieces raw titles are put together from
TitleParts ==
  { <<"a">>, <<"B">>, <<"_">>, <<"_", "-", "_">>, <<" ">>, <<"\t">>, <<"/">>,
    <<".", "m", "p", "3">> }

RECURSIVE Joined(_)
Joined(parts) == IF parts = << >> THEN << >> ELSE Head(parts) \o Joined(Tail(parts))

\* "derrick_howard_-_behold_i_live_[1973].mp3"
ExampleTitle ==
  <<
     "d", "e", "r", "r", "i", "c", "k", "_", "h", "o", "w", "a", "r", "d",
     "_", "-", "_", "b", "e", "h", "o", "l", "d", "_", "i", "_", "l", "i",
     "v", "e", "_", "[", "1", "9", "7", "3", "]", ".", "m", "p", "3" >>

\* the raw titles handed to normalize_title and display_title
RawTitles ==
  { Joined(parts) : parts \in UNION { [1..m -> TitleParts] : m \in 0..MaxTitleParts } }
    \cup { ExampleTitle }


\* the pieces preprocess payloads are put together from: ordinals, a label,
\* an extension, the arrow with a generated file name, an annotation, a slash
PayloadParts ==
  { <<"1", ".", " ">>, <<"2", ")", " ">>, <<"a", "_", "b">>, <<".", "m", "p", "3">>,
    <<" ", "-", ">", " ", "x", ".", "w", "a", "v">>, <<" ", "(", "o", "k", ")">>,
    <<"/">> }

\* the payloads handed to _clean_preprocess_title
Payloads ==
  { Joined(parts) : parts \in UNION { [1..m -> PayloadParts] : m \in 0..MaxPayloadParts } }


\* the env files found on the host: "A=1\n", "A=1" without line ending,
\* a file with a comment, "export" and "\r\n" line endings, and no file
EnvFiles ==
  { Some(<<"A", "=", "1", "\n">>),
    Some(<<"A", "=", "1">>),
    Some(<<"#", " ", "c", "\r", "\n", "e", "x", "p", "o", "r", "t", " ", "B", "=", "1", "\r", "\n">>),
    None }

\* the keys of env_updates: "A", "B", " B", "M-K" and the blank key " "
EnvKeys == { <<"A">>, <<"B">>, <<" ", "B">>, <<"M", "-", "K">>, <<" ">> }

\* the values of env_updates: "1", "2", "", "a b", "a#", "'a'", "a\"", "a\\"
\* and "\\ a" (Python literals)
EnvValues ==
  { <<"1">>, <<"2">>, << >>, <<"a", " ", "b">>, <<"a", "#">>, <<"'", "a", "'">>,
    <<"a", "\"">>, <<"a", "\\">>, <<"\\", " ", "a">> }

\* the dicts passed as env_updates, as their items in order: the empty dict,
\* every key with "1" or "2", "A" with every value, and every two keys with
\* "1" and "2"
EnvUpdates ==
  { << >> }
  \cup { << <<k, v>> >> : k \in EnvKeys, v \in { <<"1">>, <<"2">> } }
  \cup { << << <<"A">>, v >> >> : v \in EnvValues }
  \cup UNION { { << <<k1, <<"1">> >>, <<k2, <<"2">> >> >> : k2 \in EnvKeys \ {k1} } :
                 k1 \in EnvKeys }


\* the images compose_update is asked to remove
ImageRefs == { "azursmartmix:latest", "azursmartmix:dev" }

\* the return codes a command ends with: success, failure, timeout, exec error
ReturnCodes == { 0, 1, 124, 127 }

\* what a GET request to the scheduler meets: an exception (no connection, a
\* timeout), or a response: 200 with a JSON or a text content type and the
\* body "null", " [1] ", "oops" or "", 404 and 500
HttpResponse(status_code, content_type, text) ==
  [status_code |-> status_code, content_type |-> content_type, text |-> text]

HttpAnswers ==
  { [raised |-> "httpx.ConnectError"] }
  \cup { HttpResponse(200, ct, text) :
           ct \in { <<"A", "p", "p", "l", "i", "c", "a", "t", "i", "o", "n", "/", "J", "S", "O", "N", ";", " ", "c", "h", "a", "r", "s", "e", "t", "=", "u", "t", "f", "-", "8">>, <<"t", "e", "x", "t", "/", "p", "l", "a", "i", "n">> },
           text \in { <<"n", "u", "l", "l">>, <<" ", "[", "1", "]", " ">>, <<"o", "o", "p", "s">>, << >> } }
  \cup { HttpResponse(404, <<"t", "e", "x", "t", "/", "p", "l", "a", "i", "n">>, <<"o", "o", "p", "s">>),
         HttpResponse(500, <<"a", "p", "p", "l", "i", "c", "a", "t", "i", "o", "n", "/", "j", "s", "o", "n">>, <<"n", "u", "l", "l">>) }

\* the counts upcoming is asked for
UpcomingCounts == 1..MaxN

(* ---------------------------- State machine --------------------------- *)

VARIABLES
  name,     \* the container the client is pointed at
  docker,   \* what the docker call of tail_logs does: "ok" or the exception
  log,      \* the lines the container has written so far
  call,     \* the operation being answered and its inputs, or NoCall
  res,      \* the structured result of that operation
  envfile,  \* the text of the host env file, or None when there is no file
  io        \* the commands run and the requests sent by the call, in order

vars == << name, docker, log, call, res, envfile, io >>

NoCall == [op |-> "none", txt |-> << >>, current_title |-> None, n |-> 0,
           recent_window_s |-> 0, now |-> 0, s |-> << >>,
           env_updates |-> << >>, image_ref |-> ""]

Init ==
  /\ name \in {"engine", "scheduler"}
  /\ docker \in {"ok", "not_found", "docker", "unexpected"}
  /\ log = << >>
  /\ call = NoCall
  /\ res = None
  /\ envfile = None
  /\ io = << >>

\* the engine container writes one more line
EngineEmit ==
  /\ name = "engine" /\ docker = "ok" /\ call = NoCall
  /\ Len(log) < MaxEngineLines
  /\ \E line \in EngineLines(Len(log) + 1) : log' = Append(log, line)
  /\ UNCHANGED << name, docker, call, res, envfile, io >>

\* the scheduler container writes one more line
SchedEmit ==
  /\ name = "scheduler" /\ docker = "ok" /\ call = NoCall
  /\ Len(log) < MaxSchedLines
  /\ \E line \in SchedLines(Len(log) + 1) : log' = Append(log, line)
  /\ UNCHANGED << name, docker, call, res, envfile, io >>

\* self.tail_logs(container, tail=tail) as the operations call it
Txt == tail_logs(log, docker, DefaultTail)

ExtractPreprocessTitles ==
  /\ call = NoCall
  /\ call' = [NoCall EXCEPT !.op = "extract_preprocess_titles", !.txt = Txt]
  /\ res' = extract_preprocess_titles(Txt, name)
  /\ UNCHANGED << name, docker, log, envfile, io >>

ExtractSchedulerNextEntries ==
  /\ call = NoCall
  /\ call' = [NoCall EXCEPT !.op = "extract_scheduler_next_entries", !.txt = Txt]
  /\ res' = extract_scheduler_next_entries(Txt, name)
  /\ UNCHANGED << name, docker, log, envfile, io >>


\* the reconstruction answered from a text kept from before the last line
ComputeUpcomingFromPreprocessKept ==
  /\ call = NoCall
  /\ \E cur \in CurrentTitles, n \in Counts :
       /\ call' = [NoCall EXCEPT !.op = "compute_upcoming_from_preprocess", !.txt = Txt,
                                 !.current_title = cur, !.n = n]
       /\ res' = compute_upcoming_from_preprocess(
                   IF docker = "ok" /\ Len(log) > 1 THEN SubSeq(log, 1, Len(log) - 1) ELSE Txt,
                   name, cur, n)
  /\ UNCHANGED << name, docker, log, envfile, io >>

ComputeUpcomingFromPreprocess ==
  /\ call = NoCall
  /\ \E cur \in CurrentTitles, n \in Counts :
       /\ call' = [NoCall EXCEPT !.op = "compute_upcoming_from_preprocess", !.txt = Txt,
                                 !.current_title = cur, !.n = n]
       /\ res' = compute_upcoming_from_preprocess(Txt, name, cur, n)
  /\ UNCHANGED << name, docker, log, envfile, io >>

ComputeUpcomingFromSchedulerNext ==
  /\ call = NoCall
  /\ \E cur \in CurrentTitles, n \in Counts :
       /\ call' = [NoCall EXCEPT !.op = "compute_upcoming_from_scheduler_next", !.txt = Txt,
                                 !.current_title = cur, !.n = n]
       /\ res' = compute_upcoming_from_scheduler_next(Txt, name, cur, n)
  /\ UNCHANGED << name, docker, log, envfile, io >>

InferPlaylistForTitleFromScheduler ==
  /\ call = NoCall
  /\ \E cur \in CurrentTitles :
       /\ call' = [NoCall EXCEPT !.op = "infer_playlist_for_title_from_scheduler",
                                 !.txt = Txt, !.current_title = cur]
       /\ res' = infer_playlist_for_title_from_scheduler(Txt, name, cur)
  /\ UNCHANGED << name, docker, log, envfile, io >>

LastEngineStreamStart ==
  /\ call = NoCall
  /\ \E w \in Windows, now \in 0..MaxClock :
       /\ call' = [NoCall EXCEPT !.op = "last_engine_stream_start", !.txt = Txt,
                                 !.recent_window_s = w, !.now = now]
       /\ res' = last_engine_stream_start(Txt, name, w, now)
  /\ UNCHANGED << name, docker, log, envfile, io >>

\* the caller has taken the result
Return ==
  /\ call # NoCall
  /\ call' = NoCall
  /\ res' = None
  /\ io' = << >>
  /\ UNCHANGED << name, docker, log, envfile >>

Next ==
  \/ EngineEmit
  \/ SchedEmit
  \/ ExtractPreprocessTitles
  \/ ExtractSchedulerNextEntries
  \/ ComputeUpcomingFromPreprocess
  \/ ComputeUpcomingFromSchedulerNext
  \/ InferPlaylistForTitleFromScheduler
  \/ LastEngineStreamStart
  \/ Return

Spec == Init /\ [][Next]_vars

\* a container writes one more line of a mixed log
MixedEmit ==
  /\ docker = "ok" /\ call = NoCall
  /\ Len(log) < MaxMixedLines
  /\ \E line \in MixedLines(name, Len(log) + 1) : log' = Append(log, line)
  /\ UNCHANGED << name, docker, call, res, envfile, io >>

MixedNext ==
  \/ MixedEmit
  \/ ExtractPreprocessTitles
  \/ ExtractSchedulerNextEntries
  \/ ComputeUpcomingFromPreprocess
  \/ ComputeUpcomingFromSchedulerNext
  \/ InferPlaylistForTitleFromScheduler
  \/ LastEngineStreamStart
  \/ Return

\* the log operations over short logs that mix every shape of line
MixedSpec == Init /\ [][MixedNext]_vars

NormalizeTitle ==
  /\ call = NoCall
  /\ \E s \in RawTitles :
       /\ call' = [NoCall EXCEPT !.op = "normalize_title", !.s = s]
       /\ res' = normalize_title(s)
  /\ UNCHANGED << name, docker, log, envfile, io >>

DisplayTitle ==
  /\ call = NoCall
  /\ \E s \in RawTitles :
       /\ call' = [NoCall EXCEPT !.op = "display_title", !.s = s]
       /\ res' = display_title(s)
  /\ UNCHANGED << name, docker, log, envfile, io >>

TitleNext ==
  \/ NormalizeTitle
  \/ DisplayTitle
  \/ Return

\* the static title helpers applied to raw titles
TitleSpec == Init /\ [][TitleNext]_vars


CleanPreprocessTitle ==
  /\ call = NoCall
  /\ \E s \in Payloads :
       /\ call' = [NoCall EXCEPT !.op = "clean_preprocess_title", !.s = s]
       /\ res' = clean_preprocess_title(s)
  /\ UNCHANGED << name, docker, log, envfile, io >>

PayloadNext ==
  \/ CleanPreprocessTitle
  \/ Return

\* _clean_preprocess_title applied to preprocess payloads
PayloadSpec == Init /\ [][PayloadNext]_vars


\* the state in which the env file operations are called
EnvFileInit ==
  /\ name = "engine"
  /\ docker = "ok"
  /\ log = << >>
  /\ call = NoCall
  /\ res = None
  /\ envfile \in EnvFiles
  /\ io = << >>

SetEnvStep(env_updates, out) ==
  /\ call' = [NoCall EXCEPT !.op = "set_env_in_host_envfile", !.env_updates = env_updates]
  /\ envfile' = out.file
  /\ res' = out.result

SetEnvInHostEnvfile ==
  /\ call = NoCall
  /\ envfile # None => Len(read_text_lines(envfile[1])) < MaxEnvLines
  /\ \E env_updates \in EnvUpdates :
       SetEnvStep(env_updates, set_env_in_host_envfile(envfile, env_updates))
  /\ UNCHANGED << name, docker, log, io >>

GetEnvFromHostEnvfile ==
  /\ call = NoCall
  /\ call' = [NoCall EXCEPT !.op = "get_env_from_host_envfile"]
  /\ res' = get_env_from_host_envfile(envfile)
  /\ UNCHANGED << name, docker, log, envfile, io >>

EnvFileNext ==
  \/ SetEnvInHostEnvfile
  \/ GetEnvFromHostEnvfile
  \/ Return

\* the env file operations applied to the host env file, one after another
EnvFileSpec == EnvFileInit /\ [][EnvFileNext]_vars


ComposeUpdate ==
  /\ call = NoCall
  /\ \E image_ref \in ImageRefs, rc_down \in ReturnCodes, rc_rm \in ReturnCodes :
       /\ call' = [NoCall EXCEPT !.op = "compose_update", !.image_ref = image_ref]
       /\ io' = ComposeUpdateCmds(image_ref, rc_down, rc_rm)
       /\ res' = compose_update(image_ref, rc_down, rc_rm)
  /\ UNCHANGED << name, docker, log, envfile >>

UpcomingStep(n, out) ==
  /\ call' = [NoCall EXCEPT !.op = "upcoming", !.n = n]
  /\ io' = out.io
  /\ res' = out.result

Upcoming ==
  /\ call = NoCall
  /\ \E n \in UpcomingCounts, answers \in [1..3 -> HttpAnswers] :
       UpcomingStep(n, scheduler_upcoming(UpcomingPaths(n), answers))
  /\ UNCHANGED << name, docker, log, envfile >>

ControlNext ==
  \/ ComposeUpdate
  \/ Upcoming
  \/ Return

\* the stack control and scheduler proxy operations, one after another
ControlSpec == Init /\ [][ControlNext]_vars

(* ------------------- Vocabulary of the properties --------------------- *)

IsPreprocess == call.op = "compute_upcoming_from_preprocess"

IsScheduler == call.op = "compute_upcoming_from_scheduler_next"

IsReconstruction == IsPreprocess \/ IsScheduler

IsCorrelation == call.op = "infer_playlist_for_title_from_scheduler"

\* the log source gave no content: empty text or a "[control]" error string
SourceUnavailable == call.txt = << >> \/ call.txt[1].kind = "control"

\* the items of the entries, as the scheduler reconstruction returns them
ItemsOfEntries(entries) == [i \in 1..Len(entries) |-> UpcomingItem(entries[i])]

\* the sequence the answered reconstruction extracted from its log text
ExtractedItems ==
  IF IsPreprocess THEN PreprocessTitles(call.txt)
  ELSE ItemsOfEntries(NextEntries(call.txt))

\* the matching key of an item: the trimmed title, or the normalized title
ItemKey(item) == IF IsPreprocess THEN Strip(item) ELSE normalize_title(item.title)

KeysOf(items) == [i \in 1..Len(items) |-> ItemKey(items[i])]

\* the key of the current title the call was given
CurrentKey ==
  IF IsPreprocess THEN Strip(OrEmpty(call.current_title))
  ELSE normalize_title(OrEmpty(call.current_title))

\* the places of keys that hold key cur
Occurrences(keys, cur) == { i \in 1..Len(keys) : keys[i] = cur }

\* the largest place of S (0 when S is empty)
LastOf(S) == IF S = {} THEN 0 ELSE CHOOSE i \in S : \A j \in S : j <= i

\* the places lo..hi that hold the first occurrence of a non-empty key in lo..hi
FirstSeen(keys, lo, hi) ==
  { i \in lo..hi : keys[i] # << >> /\ \A j \in lo..(i-1) : keys[j] # keys[i] }

\* the items at the places S, in log order
ItemsAt(items, S) ==
  [k \in 1..Cardinality(S) |->
     items[CHOOSE i \in S : Cardinality({j \in S : j <= i}) = k]]

\* the first n items of xs (all of them when there are fewer)
FirstN(xs, n) == IF Len(xs) <= n THEN xs ELSE SubSeq(xs, 1, n)

\* xs is the beginning of ys
IsPrefix(xs, ys) == Len(xs) <= Len(ys) /\ xs = SubSeq(ys, 1, Len(xs))

\* the first place of the tail window of the last `width` places of len places
TailStart(len, width) == IF len > width THEN len - width + 1 ELSE 1

\* the window factor of the answered reconstruction
TailFactor == IF IsPreprocess THEN 4 ELSE 8

OnFallbackPath ==
  /\ IsReconstruction /\ res.ok
  /\ res.source \in {"engine_logs_fallback_tail", "scheduler_logs_fallback_tail"}

OnConfidentPath ==
  /\ IsReconstruction /\ res.ok
  /\ res.source \in {"engine_logs_after_current", "scheduler_logs_after_current"}

(* ------------------------------ Properties ---------------------------- *)

AfterLastOccurrence(items, keys, cur, n, upcoming) ==
  (cur # << >> /\ Cardinality(Occurrences(keys, cur)) >= 2)
  => upcoming = FirstN(ItemsAt(items, FirstSeen(keys, LastOf(Occurrences(keys, cur)) + 1,
                                                 Len(items))), n)

\* C1: in both reconstructions, when the non-empty current title occurs at
\* several places of the extracted sequence, the upcoming list is the
\* order-preserving dedupe of exactly what follows the LAST occurrence, cut to
\* n (n >= 1): nothing from before the last occurrence is returned.
C1_AfterLastOccurrence ==
  (IsReconstruction /\ call.n >= 1 /\ res.ok)
  => AfterLastOccurrence(ExtractedItems, KeysOf(ExtractedItems), CurrentKey,
                         call.n, res.upcoming)

RepeatedThenNothing(keys, cur) ==
  /\ cur # << >> /\ Cardinality(Occurrences(keys, cur)) >= 2
  /\ \E i \in 1..Len(keys) : keys[i] \notin {cur, << >>}
  /\ keys[Len(keys)] = cur

\* C1's case: the current title occurs twice or more, another title stands
\* before its last occurrence and nothing follows it, so nothing is upcoming.
C1_Witness ==
  /\ IsReconstruction /\ call.n >= 1 /\ res.ok
  /\ RepeatedThenNothing(KeysOf(ExtractedItems), CurrentKey)
  /\ res.upcoming = << >>

NoDuplicateKeepOrder(items, keys, cur, n, upcoming, confident) ==
  /\ \A i, j \in 1..Len(upcoming) : i # j => ItemKey(upcoming[i]) # ItemKey(upcoming[j])
  /\ n >= 1 =>
       IsPrefix(upcoming,
                ItemsAt(items, FirstSeen(keys,
                                         IF confident THEN LastOf(Occurrences(keys, cur)) + 1
                                         ELSE TailStart(Len(items), n * TailFactor),
                                         Len(items))))

\* C2: the upcoming list of either reconstruction never holds two items with
\* the same key, and (n >= 1) its items come in the order of their first
\* occurrences in the candidate window: it is a prefix of the window's
\* first-seen items.
C2_NoDuplicateKeepOrder ==
  (IsReconstruction /\ res.ok)
  => NoDuplicateKeepOrder(ExtractedItems, KeysOf(ExtractedItems), CurrentKey,
                          call.n, res.upcoming, OnConfidentPath)

WindowRepeatsAKey(keys, lo) ==
  \E i, j \in lo..Len(keys) : i < j /\ keys[i] = keys[j] /\ keys[i] # << >>

\* C2's case: the candidate window repeats a key and two distinct items are kept.
C2_Witness ==
  /\ OnFallbackPath /\ call.n >= 2
  /\ Len(res.upcoming) = 2
  /\ WindowRepeatsAKey(KeysOf(ExtractedItems),
                       TailStart(Len(ExtractedItems), call.n * TailFactor))

FallbackFlag(keys, cur) ==
  /\ (cur = << >> \/ Occurrences(keys, cur) = {})
       => (res.current_title_found = FALSE /\ OnFallbackPath)
  /\ (res.current_title_found \/ OnConfidentPath)
       => (cur # << >> /\ Occurrences(keys, cur) # {})

\* C3: a successful reconstruction whose current title is empty or matches no
\* element reports current_title_found = FALSE and a "..._fallback_tail"
\* source; found = TRUE or an "..._after_current" source is returned only when
\* some element's key equals the (non-empty) key of the current title.
C3_FallbackFlag ==
  (IsReconstruction /\ res.ok) => FallbackFlag(KeysOf(ExtractedItems), CurrentKey)

\* C3's case: a non-empty current title that matches no element of a non-empty
\* sequence, answered on the fallback path.
C3_Witness ==
  /\ OnFallbackPath /\ res.current_title_found = FALSE
  /\ CurrentKey # << >>
  /\ Len(ExtractedItems) > 0
  /\ Occurrences(KeysOf(ExtractedItems), CurrentKey) = {}

\* C4: a reconstruction called with n <= 0 clamps the limit to 1: its result
\* is the result of the call with n = 1 on the same log text and current title.
C4_ClampToOne ==
  (IsReconstruction /\ call.n <= 0)
  => res = (IF IsPreprocess
              THEN compute_upcoming_from_preprocess(call.txt, name, call.current_title, 1)
              ELSE compute_upcoming_from_scheduler_next(call.txt, name, call.current_title, 1))

MoreKeysThan(keys, lo, n) == Cardinality(FirstSeen(keys, lo, Len(keys))) > n

C6_EmptySequenceFails ==
  (IsReconstruction /\ ~SourceUnavailable /\ Len(ExtractedItems) = 0)
  => (res.ok = FALSE /\ res.error # "" /\ res.upcoming = << >>)

\* C6's case: a log with lines of which none is a preprocess title.
C6_Witness ==
  /\ IsPreprocess /\ ~SourceUnavailable /\ Len(call.txt) > 0
  /\ Len(ExtractedItems) = 0
  /\ res.ok = FALSE /\ res.error = "no preprocess titles found"

DrawnFromTail(items, width, upcoming) ==
  \A x \in 1..Len(upcoming) :
     \E i \in 1..Len(items) : i > Len(items) - width /\ items[i] = upcoming[x]

\* C7: on the fallback path with n >= 1 every upcoming item is one of the last
\* n*k elements of the extracted sequence, k = 4 for the preprocess sequence
\* and k = 8 for the scheduler NEXT sequence.
C7_FallbackTailWindow ==
  (OnFallbackPath /\ call.n >= 1)
  => DrawnFromTail(ExtractedItems, call.n * TailFactor, res.upcoming)

OldestKeyLeftOut(keys, width) ==
  Len(keys) > width /\ keys[1] # keys[Len(keys) - width + 1]

\* C7's case: a scheduler sequence longer than its tail window, whose oldest
\* entry carries a key the window's first entry does not.
C7_Witness ==
  /\ OnFallbackPath /\ IsScheduler /\ call.n >= 1
  /\ Len(res.upcoming) = call.n
  /\ OldestKeyLeftOut(KeysOf(ExtractedItems), call.n * 8)

\* the key the correlator looks for
CorrelatedKey == normalize_title(OrEmpty(call.current_title))

\* the places of the entries whose normalized title is key
Matches(entries, key) == { i \in 1..Len(entries) : entries[i].title_norm = key }

PlaylistOfLastMatch(entries, last) ==
  IF last > 0
    THEN res.match = Some(entries[last]) /\ res.playlist = Some(entries[last].playlist)
    ELSE res.match = None /\ res.playlist = None

\* C8: when some NEXT entry's normalized title equals the (non-empty)
\* normalized current title, infer_playlist_for_title_from_scheduler returns
\* the playlist of the LAST such entry and that entry as match; when none
\* does, playlist and match are null.
C8_PlaylistOfLastMatch ==
  (IsCorrelation /\ res.ok /\ CorrelatedKey # << >>)
  => PlaylistOfLastMatch(NextEntries(call.txt),
                         LastOf(Matches(NextEntries(call.txt), CorrelatedKey)))

\* C8's case: two entries match, the later one is returned, with its playlist.
C8_Witness ==
  /\ IsCorrelation /\ res.ok
  /\ Cardinality(Matches(NextEntries(call.txt), CorrelatedKey)) >= 2
  /\ res.match # None
  /\ res.match[1].ts.t = LastOf(Matches(NextEntries(call.txt), CorrelatedKey))
  /\ res.playlist = Some("morning")

\* C9: with the scheduler log available, an empty normalized current title or
\* a log without NEXT entry gives ok = TRUE with playlist and match null.
C9_NoTitleIsNormal ==
  (IsCorrelation /\ ~SourceUnavailable
     /\ (CorrelatedKey = << >> \/ Len(NextEntries(call.txt)) = 0))
  => (res.ok = TRUE /\ res.playlist = None /\ res.match = None)

\* C9's case: a current title over a log that was obtained but holds no NEXT
\* entry.
C9_Witness ==
  /\ IsCorrelation /\ ~SourceUnavailable /\ res.ok
  /\ CorrelatedKey # << >> /\ Len(NextEntries(call.txt)) = 0 /\ Len(call.txt) > 0
  /\ res.playlist = None

\* C10: when the log source returns an error string or empty text, the two
\* extractors return ok = FALSE, a non-empty error ("empty logs" for empty
\* text) and an empty list, and every operation built on them returns
\* ok = FALSE with nothing in it.
C10_SourceUnavailableFails ==
  (call.op # "none" /\ SourceUnavailable)
  => /\ res.ok = FALSE
     /\ res.error # ""
     /\ call.txt = << >> => res.error = "empty logs"
     /\ call.op = "extract_preprocess_titles" => res.titles = << >>
     /\ call.op = "extract_scheduler_next_entries" => res.entries = << >>
     /\ IsReconstruction => res.upcoming = << >>
     /\ IsCorrelation => (res.playlist = None /\ res.match = None)
     /\ call.op = "last_engine_stream_start" => (res.line = None /\ res.recent = FALSE)

\* C10's case: the container is not found and a reconstruction is asked for.
C10_Witness ==
  /\ IsReconstruction /\ call.txt # << >> /\ call.txt[1].kind = "control"
  /\ res.ok = FALSE /\ res.error = "[control] container not found"

\* the texts tail_logs returns when the source is unavailable
UnavailableTexts ==
  { << >> } \cup { tail_logs(<< >>, fault, DefaultTail) :
                     fault \in {"not_found", "docker", "unexpected"} }

\* the answered reconstruction, asked again over the log text txt
ReconstructionOn(txt) ==
  IF IsPreprocess
    THEN compute_upcoming_from_preprocess(txt, name, call.current_title, call.n)
    ELSE compute_upcoming_from_scheduler_next(txt, name, call.current_title, call.n)

SameFailure(r1, r2) == r1.error = r2.error /\ r1.source = r2.source

\* C11: the result a reconstruction returns when the log text was obtained
\* but holds no matching line differs, in its error or in its source tag, from
\* every result it returns when the log source is unavailable.
C11_NoDataDistinct ==
  (IsReconstruction /\ ~SourceUnavailable /\ Len(ExtractedItems) = 0)
  => \A txt \in UnavailableTexts : ~SameFailure(res, ReconstructionOn(txt))

\* C11's case: a scheduler log with lines, none of them a NEXT entry.
C11_Witness ==
  /\ IsScheduler /\ ~SourceUnavailable /\ Len(call.txt) > 0
  /\ Len(ExtractedItems) = 0
  /\ res.ok = FALSE /\ res.error = "no scheduler NEXT entries found"

\* C12: every structured result of the six core operations, on every return
\* path, carries both an ok indicator and a source tag.
C12_OkAndSourceTag ==
  (call.op \in {"extract_preprocess_titles", "extract_scheduler_next_entries",
                "compute_upcoming_from_preprocess", "compute_upcoming_from_scheduler_next",
                "infer_playlist_for_title_from_scheduler", "last_engine_stream_start"})
  => {"ok", "source"} \subseteq DOMAIN res

IsStreamStart == call.op = "last_engine_stream_start"

\* the places of txt whose line matches the stream-start marker
StreamStartPlaces(txt) == { i \in 1..Len(txt) : txt[i].kind = "stream_start" }

\* the timestamp the line carries and strptime accepts, if any
ParsedTs(line) == IF line.ts # None THEN parse_sched_ts(line.ts[1]) ELSE None

LastStreamStartLine(txt, last) ==
  IF last = 0 THEN res.line = None
  ELSE /\ res.line = Some(txt[last])
       /\ ParsedTs(txt[last]) # None => res.ts = ParsedTs(txt[last])

\* C13: last_engine_stream_start returns as line the LAST line of the tail
\* that matches the stream-start marker, whatever matched before it, and when
\* that line carries a valid timestamp, that timestamp.
C13_LastStreamStartLine ==
  (IsStreamStart /\ res.ok)
  => LastStreamStartLine(call.txt, LastOf(StreamStartPlaces(call.txt)))

TwoTimedStarts(txt, places) ==
  /\ Cardinality(places) >= 2
  /\ \A i \in places : ParsedTs(txt[i]) # None
  /\ \E i, j \in places : ParsedTs(txt[i])[1] < ParsedTs(txt[j])[1]
  /\ res.line = Some(txt[LastOf(places)])
  /\ res.ts = ParsedTs(txt[LastOf(places)])

\* C13's case: two matching lines with timestamps T1 < T2; the line and the
\* timestamp of T2 are returned.
C13_Witness ==
  /\ IsStreamStart /\ res.ok
  /\ TwoTimedStarts(call.txt, StreamStartPlaces(call.txt))

UnparsedLastLine(txt, last) ==
  (last > 0 /\ ParsedTs(txt[last]) = None)
  => /\ res.line = Some(txt[last])
     /\ res.ts = None /\ res.age_s = None /\ res.recent = FALSE

\* C14: when the last matching stream-start line carries no parseable
\* timestamp, the result still returns that line, with ts null, age_s null and
\* recent = FALSE, whatever timestamps earlier matching lines carried.
C14_UnparsedLastLine ==
  (IsStreamStart /\ res.ok)
  => UnparsedLastLine(call.txt, LastOf(StreamStartPlaces(call.txt)))

\* 0 <= now - ts <= recent_window_s, the three in clock ticks
WithinWindow(ts, now, recent_window_s) ==
  now - ts >= 0 /\ now - ts <= recent_window_s * TicksPerSecond

RecentExactly(txt, last) ==
  (last > 0 /\ ParsedTs(txt[last]) # None)
  => res.recent = WithinWindow(ParsedTs(txt[last])[1], call.now, call.recent_window_s)

\* C15: when the last stream-start line has a parsed timestamp ts, recent is
\* TRUE exactly when 0 <= now - ts <= recent_window_s, and FALSE otherwise: a
\* timestamp in the future or an age above the window is not recent.
C15_RecentExactly ==
  (IsStreamStart /\ res.ok)
  => RecentExactly(call.txt, LastOf(StreamStartPlaces(call.txt)))

\* C16: with the engine log available and no line matching the stream-start
\* marker, last_engine_stream_start returns ok = TRUE, line null and
\* recent = FALSE.
C16_AbsenceIsNotFailure ==
  (IsStreamStart /\ ~SourceUnavailable /\ StreamStartPlaces(call.txt) = {})
  => (res.ok = TRUE /\ res.line = None /\ res.recent = FALSE)

\* C16's case: a log with lines, none of them a stream start.
C16_Witness ==
  /\ IsStreamStart /\ ~SourceUnavailable
  /\ Len(call.txt) >= 2 /\ StreamStartPlaces(call.txt) = {}
  /\ res.ok = TRUE /\ res.line = None

\* C17: normalize_title and display_title are idempotent: applied to their own
\* result they return it unchanged, for every raw title.
C17_Idempotent ==
  /\ call.op = "normalize_title" => normalize_title(res) = res
  /\ call.op = "display_title" => display_title(res) = res

\* "derrick howard - behold i live [1973]"
ExampleDisplayed ==
  <<
     "d", "e", "r", "r", "i", "c", "k", " ", "h", "o", "w", "a", "r", "d",
     " ", "-", " ", "b", "e", "h", "o", "l", "d", " ", "i", " ", "l", "i",
     "v", "e", " ", "[", "1", "9", "7", "3", "]" >>

\* out is a displayed label: one path segment, no underscore, trimmed, no run
\* of two whitespace characters
DisplayShape(out) ==
  /\ \A i \in 1..Len(out) : out[i] \notin {"_", "/"}
  /\ out # << >> => (out[1] \notin Whitespace /\ out[Len(out)] \notin Whitespace)
  /\ \A i \in 1..(Len(out) - 1) : ~(out[i] \in Whitespace /\ out[i+1] \in Whitespace)

\* C18: display_title returns a label of one path segment without underscore,
\* without leading or trailing whitespace and without two whitespace
\* characters in a row; it keeps the case of the letters (lower-casing it gives
\* normalize_title), returns "" for "", and
\* "derrick howard - behold i live [1973]" for
\* "derrick_howard_-_behold_i_live_[1973].mp3".
C18_DisplayTitle ==
  call.op = "display_title"
  => /\ DisplayShape(res)
     /\ Lower(res) = normalize_title(call.s)
     /\ call.s = << >> => res = << >>
     /\ call.s = ExampleTitle => res = ExampleDisplayed

\* C18's case: the example label has been displayed.
C18_Witness ==
  /\ call.op = "display_title"
  /\ call.s = ExampleTitle
  /\ res = ExampleDisplayed

IsPreprocessExtraction == call.op = "extract_preprocess_titles"

IsExtraction ==
  call.op \in {"extract_preprocess_titles", "extract_scheduler_next_entries"}

\* the line has the shape the answered extraction looks for
Contributes(line) ==
  IF IsPreprocessExtraction
    THEN /\ line.kind = "preprocess"
         /\ clean_preprocess_title(Strip(line.payload)) # None
    ELSE line.kind = "next"

\* the item a contributing line stands for
ItemOfLine(line) ==
  IF IsPreprocessExtraction
    THEN clean_preprocess_title(Strip(line.payload))[1]
    ELSE [ts |-> line.ts, title |-> line.title,
          title_norm |-> normalize_title(line.title),
          title_display |-> display_title(line.title), playlist |-> line.playlist]

\* the items of an extraction result
ItemsOfResult(r) == IF IsPreprocessExtraction THEN r.titles ELSE r.entries

\* the answered extraction, asked again over the log text txt
ExtractionOn(txt) ==
  IF IsPreprocessExtraction THEN extract_preprocess_titles(txt, name)
  ELSE extract_scheduler_next_entries(txt, name)

\* the k-th place of S, counted upward
PlaceOf(S, k) == CHOOSE i \in S : Cardinality({ j \in S : j <= i }) = k

InLogOrder(txt, places, items) ==
  /\ Len(items) = Cardinality(places)
  /\ \A k \in 1..Len(items) : items[k] = ItemOfLine(txt[PlaceOf(places, k)])

IsNextExtraction == call.op = "extract_scheduler_next_entries"

\* the places of the lines that carry every field of a NEXT announcement
NextPlaces(txt) == { i \in 1..Len(txt) : txt[i].kind = "next" }

OneEntryPerNextLine(txt, places, entries) ==
  /\ Len(entries) = Cardinality(places)
  /\ \A k \in 1..Len(entries) :
       /\ entries[k].ts = txt[PlaceOf(places, k)].ts
       /\ entries[k].title = txt[PlaceOf(places, k)].title
       /\ entries[k].playlist = txt[PlaceOf(places, k)].playlist
       /\ entries[k].title_norm = normalize_title(entries[k].title)

\* C20: extract_scheduler_next_entries emits exactly one entry per line that
\* carries all the fields of a NEXT announcement and none for any other line;
\* every entry's title_norm is normalize_title of its raw title, and a line
\* whose timestamp text is no valid date/time still gives its entry, with the
\* raw timestamp.
C20_OneEntryPerNextLine ==
  (IsNextExtraction /\ res.ok)
  => OneEntryPerNextLine(call.txt, NextPlaces(call.txt), res.entries)

\* C20's case: a line without playlist field and a full line whose timestamp
\* is no date/time: one entry, with that timestamp.
C20_Witness ==
  /\ IsNextExtraction /\ res.ok
  /\ \E i \in 1..Len(call.txt) : call.txt[i].kind = "other"
  /\ Len(res.entries) = 1
  /\ res.entries[1].ts.valid = FALSE
  /\ res.entries[1].title_norm = <<"a", " ", "b">>

\* what an extraction, reconstruction or correlation call c on the container
\* returns, from its log text and its parameters alone
AnswerTo(c, container) ==
  CASE c.op = "extract_preprocess_titles" ->
         extract_preprocess_titles(c.txt, container)
    [] c.op = "extract_scheduler_next_entries" ->
         extract_scheduler_next_entries(c.txt, container)
    [] c.op = "compute_upcoming_from_preprocess" ->
         compute_upcoming_from_preprocess(c.txt, container, c.current_title, c.n)
    [] c.op = "compute_upcoming_from_scheduler_next" ->
         compute_upcoming_from_scheduler_next(c.txt, container, c.current_title, c.n)
    [] c.op = "infer_playlist_for_title_from_scheduler" ->
         infer_playlist_for_title_from_scheduler(c.txt, container, c.current_title)

StatelessOps ==
  { "extract_preprocess_titles", "extract_scheduler_next_entries",
    "compute_upcoming_from_preprocess", "compute_upcoming_from_scheduler_next",
    "infer_playlist_for_title_from_scheduler" }

IsCleaning == call.op = "clean_preprocess_title"

\* the places of s where an arrow "->" starts
ArrowPlaces(s) == { i \in 1..Len(s) : MatchesAt(s, i, <<"-", ">">>) }

\* what stands left of the first arrow of s
LeftOfArrow(s, places) ==
  SubSeq(s, 1, (CHOOSE i \in places : \A j \in places : i <= j) - 1)

\* the title of the left-hand side alone, whatever stands right of the arrow
OnlyLeftOfArrow(left, title) ==
  /\ title = clean_preprocess_title(left)
  /\ \A right \in PayloadParts \cup { << >> } :
       clean_preprocess_title(left \o <<"-", ">">> \o right) = title

\* C22: for a payload with an arrow, the title is the one the left-hand side
\* of the first arrow gives once its leading ordinal and its trailing
\* parenthetical annotation are removed; what stands right of the arrow never
\* changes it; a payload that cleans to the empty string gives no title.
C22_OnlyLeftOfArrow ==
  IsCleaning
  => /\ ArrowPlaces(call.s) # {}
          => OnlyLeftOfArrow(LeftOfArrow(call.s, ArrowPlaces(call.s)), res)
     /\ res # None => res[1] # << >>
     /\ TitlesOfLine([kind |-> "preprocess", payload |-> call.s]) = res
     /\ call.s = <<"1", ".", " ", "a", "_", "b", " ", "(", "o", "k", ")", " ", "-", ">", " ",
                   "x", ".", "w", "a", "v">> => res = Some(<<"a", " ", "b">>)

\* C22's case: "1. a_b (ok) -> x.wav" has given the title "a b".
C22_Witness ==
  /\ IsCleaning
  /\ ArrowPlaces(call.s) # {}
  /\ LeadingIdxLen(call.s) > 0
  /\ \E i \in 1..Len(call.s) : call.s[i] = "("
  /\ res = Some(<<"a", " ", "b">>)

IsSetEnv == call.op = "set_env_in_host_envfile" /\ res # FileNotFound

\* the places of env_updates whose key is not blank, and those keys
NonBlankKeys(env_updates) ==
  { i \in 1..Len(env_updates) : Strip(env_updates[i][1]) # << >> }

UpdateKeys(env_updates) ==
  { Strip(env_updates[i][1]) : i \in NonBlankKeys(env_updates) }

\* was / now: what the file holds before and after the call (keys with their
\* values and line places), keys: the keys of env_updates
MergeNeverErodes(was, now, len_was, len_now, keys, env_updates, r) ==
  /\ DOMAIN was.env \subseteq DOMAIN now.env
  /\ \A k \in DOMAIN was.env \ keys : k \in DOMAIN now.env /\ now.env[k] = was.env[k]
  /\ \A k \in DOMAIN was.env \cap keys : k \in DOMAIN now.idx /\ now.idx[k] = was.idx[k]
  /\ len_now = len_was + r.added
  /\ \A k \in keys \ DOMAIN was.env : k \in DOMAIN now.idx => now.idx[k] > len_was
  /\ r.updated + r.added = Cardinality(NonBlankKeys(env_updates))

\* C23: set_env_in_host_envfile is a merge that never erodes the file: every
\* key present in the env file before the call is present after it, every key
\* absent from env_updates keeps its value, the keys already present keep
\* their line, the new keys are appended as lines at the end, and updated +
\* added is the number of non-blank keys of env_updates.
C23_MergeNeverErodes ==
  IsSetEnv
  => MergeNeverErodes(parse_dotenv_lines(read_text_lines(res.backup)),
                      parse_dotenv_lines(read_text_lines(envfile[1])),
                      Len(read_text_lines(res.backup)), Len(read_text_lines(envfile[1])),
                      UpdateKeys(call.env_updates), call.env_updates, res)

IsComposeUpdate == call.op = "compose_update"

\* every image removal among the commands was run after a compose down that
\* had succeeded
RmOnlyAfterDownSucceeded(cmds) ==
  \A i \in 1..Len(cmds) :
    (Len(cmds[i].cmd) >= 3 /\ SubSeq(cmds[i].cmd, 1, 3) = <<"docker", "image", "rm">>)
    => \E j \in 1..(i-1) : cmds[j].cmd = ComposeDownCmd /\ cmds[j].rc = 0

\* C24: compose_update executes "docker compose down && docker image rm -f
\* <image> || true": the image removal is run only after the compose down has
\* succeeded, and a failing image removal never makes the result a failure.
C24_RmOnlyAfterDownSucceeded ==
  IsComposeUpdate
  => /\ RmOnlyAfterDownSucceeded(io)
     /\ res.step_down.ok => res.ok

IsUpcoming == call.op = "upcoming"

\* a request failed: an exception, or an HTTP status >= 400
Failed(answer) == "raised" \in DOMAIN answer \/ answer.status_code >= 400

\* the requests that did not fail
Answered(sent) == { i \in 1..Len(sent) : ~Failed(sent[i].answer) }

ProbedInOrder(paths, sent, r) ==
  /\ Len(sent) <= 3
  /\ \A i \in 1..Len(sent) : sent[i].get = paths[i]
  /\ \A i \in 1..Len(sent) : \A j \in 1..(i-1) : Failed(sent[j].answer)
  /\ Answered(sent) # {}
       => r.source = Some(sent[CHOOSE i \in Answered(sent) : \A j \in Answered(sent) : i <= j].get)
  /\ r.source = None
       => /\ Len(sent) = 3 /\ Answered(sent) = {}
          /\ r.data = NoUpcomingEndpoint

\* C25: upcoming(n) requests /next?n=<n>, /next<n>, /next1 in this order, a
\* later one only after every earlier one failed (HTTP status >= 400 or an
\* exception); source names the first endpoint that answered, and is null,
\* with the note, only when all three failed.
C25_ProbedInOrder ==
  IsUpcoming => ProbedInOrder(UpcomingPaths(call.n), io, res)

\* no item of the upcoming list has the key cur
NeverUpcoming(upcoming, cur) ==
  \A i \in 1..Len(upcoming) : ItemKey(upcoming[i]) # cur

\* C26: in both reconstructions and for every log text, a non-empty current
\* title never appears in its own upcoming list: no returned item has the key
\* (trimmed title / normalized title) of the current title, on the confident
\* path and on the fallback path.
C26_CurrentNeverUpcoming ==
  (IsReconstruction /\ res.ok /\ OrEmpty(call.current_title) # << >>)
  => NeverUpcoming(res.upcoming, CurrentKey)

\* C26's case: the current title stands in the log, other titles follow its
\* last occurrence, and the confident path returns them.
C26_Witness ==
  /\ OnConfidentPath
  /\ OrEmpty(call.current_title) # << >>
  /\ Occurrences(KeysOf(ExtractedItems), CurrentKey) # {}
  /\ res.upcoming # << >>
  /\ NeverUpcoming(res.upcoming, CurrentKey)

\* the file read back reports the value v under the key k
ReadsBack(env, k, v) == k \in DOMAIN env /\ env[k] = v

\* C27: write/read round trip of the env file: after a successful
\* set_env_in_host_envfile(path, {k: v}), get_env_from_host_envfile(path)
\* reports environment[k] = v, for every single-line value v, also one with
\* blanks, "#", single or double quotes and backslashes.
C27_RoundTrip ==
  (IsSetEnv /\ Len(call.env_updates) = 1 /\ NonBlankKeys(call.env_updates) # {})
  => ReadsBack(get_env_from_host_envfile(envfile).environment,
               call.env_updates[1][1], call.env_updates[1][2])

\* again: what a second call with the same env_updates does to the file
SameAfterSecond(file, again) ==
  /\ again.file = file
  /\ again.result.added = 0
  /\ Len(read_text_lines(again.file[1])) = Len(read_text_lines(file[1]))

\* C28: set_env_in_host_envfile is idempotent on the file content: a second
\* call with the same env_updates leaves the lines of the env file as they
\* are after the first call, reports added = 0 and does not add a line, for
\* every key the function accepts, also one that is no shell identifier.
C28_IdempotentOnFile ==
  IsSetEnv => SameAfterSecond(envfile, set_env_in_host_envfile(envfile, call.env_updates))

====
